---------------------------- MODULE Spec2Model ----------------------------
(***************************************************************************)
(* A model of wealthsimple-prometheus (src/src/main.rs): the login         *)
(* function with its one-time-password challenge and cached claim, and     *)
(* the poll loop of main that fetches the accounts, re-authenticates on    *)
(* 401 and sets four gauge families per account.                           *)
(*                                                                         *)
(* The HTTP server, the terminal and the wall clock are the environment:   *)
(* every response, prompt result and transport failure is chosen           *)
(* nondeterministically from the small sets defined below.                 *)
(*                                                                         *)
(* Spec is main alone, against the full sets of responses.  SpecThreads    *)
(* interleaves main with the metrics thread it spawns (main.rs:113-138),   *)
(* against the responses of SmallWorld.                                    *)
(***************************************************************************)
EXTENDS Integers, Sequences, FiniteSets, TLC

(***************************************************************************)
(* Bounds of the model.                                                    *)
(***************************************************************************)
\* How many distinct access tokens the login endpoint can hand out.
NumTokens == 2
\* How many distinct OTP claims the login endpoint can hand out.
NumClaims == 2

(***************************************************************************)
(* Values.                                                                 *)
(***************************************************************************)
\* Option::None, and a header that a response does not carry.
None == "<none>"

Tokens == {"tok" \o ToString(i) : i \in 1..NumTokens}
Claims == {"claim" \o ToString(i) : i \in 1..NumClaims}

\* What the user types at the three prompts, and the generated device id.
Username == "user@example.com"
Password == "hunter2"
DeviceId == "0123456789abcdef0123456789abcdef"
OtpCode  == "123456"

\* The header value that starts the OTP challenge (main.rs:226).
OtpRequiredApp == "required; method=app"
\* The values the x-wealthsimple-otp response header can have.
OtpHeaderValues == {None, OtpRequiredApp, "required; method=sms"}

\* A response body: JSON of the expected shape, UTF-8 text that is not such
\* JSON, or bytes that are not UTF-8.
JsonBody(v) == [kind |-> "json", value |-> v]
TextBody    == [kind |-> "text", value |-> None]
BinaryBody  == [kind |-> "binary", value |-> None]
ErrorBodies == {TextBody, BinaryBody}

\* std::str::from_utf8(resp.as_bytes()) succeeds.
IsUtf8(body) == body.kind # "binary"

NoResp == [status |-> 0, otp |-> None, claim |-> None, body |-> TextBody]

\* The responses of the login endpoint to the first request and to the OTP
\* retry.  500 stands for every status other than 200 and 401.  Only a 200
\* carries a token body.
LoginBodies(s) ==
    IF s = 200 THEN {JsonBody(t) : t \in Tokens} \cup ErrorBodies ELSE ErrorBodies

FirstResponses ==
    UNION {{[status |-> s, otp |-> o, claim |-> None, body |-> b] :
               o \in OtpHeaderValues, b \in LoginBodies(s)} : s \in {200, 401, 500}}

RetryResponses ==
    UNION {{[status |-> s, otp |-> None, claim |-> c, body |-> b] :
               c \in Claims \cup {None}, b \in LoginBodies(s)} : s \in {200, 401, 500}}

(***************************************************************************)
(* Amounts: strings are sequences of characters, parsed as f64::from_str   *)
(* parses a plain decimal: an optional sign, digits with at most one       *)
(* point, at least one digit.  A parsed value is kept exactly, as a        *)
(* mantissa and a number of fraction digits without trailing zeros.        *)
(***************************************************************************)
Digits == {"0", "1", "2", "3", "4", "5", "6", "7", "8", "9"}

DigitVal(c) ==
    CASE c = "0" -> 0 [] c = "1" -> 1 [] c = "2" -> 2 [] c = "3" -> 3
      [] c = "4" -> 4 [] c = "5" -> 5 [] c = "6" -> 6 [] c = "7" -> 7
      [] c = "8" -> 8 [] c = "9" -> 9

RECURSIVE Mantissa(_)
Mantissa(ds) ==
    IF ds = <<>> THEN 0
    ELSE 10 * Mantissa(SubSeq(ds, 1, Len(ds) - 1)) + DigitVal(ds[Len(ds)])

RECURSIVE Normalise(_, _)
Normalise(m, f) ==
    IF f > 0 /\ m % 10 = 0 THEN Normalise(m \div 10, f - 1)
    ELSE [ok |-> TRUE, mant |-> m, frac |-> f]

ParseError == [ok |-> FALSE, mant |-> 0, frac |-> 0]

IsDigit(c) == c \in Digits

ParseF64(s) ==
    LET signed == s # <<>> /\ s[1] \in {"+", "-"}
        body   == IF signed THEN Tail(s) ELSE s
        dots   == {i \in DOMAIN body : body[i] = "."}
        ds     == SelectSeq(body, IsDigit)
        wellFormed == /\ Cardinality(dots) <= 1
                      /\ \A i \in DOMAIN body \ dots : body[i] \in Digits
                      /\ ds # <<>>
        frac   == IF dots = {} THEN 0 ELSE Len(body) - (CHOOSE i \in dots : TRUE)
        sign   == IF signed /\ s[1] = "-" THEN -1 ELSE 1
    IN  IF wellFormed THEN Normalise(sign * Mantissa(ds), frac) ELSE ParseError

(***************************************************************************)
(* Accounts.                                                               *)
(***************************************************************************)
\* The gauge family each amount is written to, in the order of the loop body:
\* total_deposits, total_withdrawals, net_liquidation, gross_position.
DEPOSITED == "wealthsimple_deposited"
WITHDRAWN == "wealthsimple_withdrawn"
NET_LIQUIDATION == "wealthsimple_net_liquidation"
GROSS_POSITION == "wealthsimple_gross_position"
Families == <<DEPOSITED, WITHDRAWN, NET_LIQUIDATION, GROSS_POSITION>>
FamilySet == {Families[j] : j \in DOMAIN Families}

\* Two sets of amounts that all parse, and strings that do not.
Amounts1 == << <<"1","0","0","0",".","5","0">>, <<"0">>,
               <<"1","0","5","0",".","2","5">>, <<"1","0","5","0",".","2","5">> >>
Amounts2 == << <<"2","0","0","0">>, <<"-","1","5",".","7","5">>,
               <<"1","9","0","0",".">>, <<"+","1","9","0","0">> >>
BadAmounts == << <<>>, <<"n","/","a">>, <<"1",",","5">>, <<"1",".","2",".","3">> >>

\* The amounts an account can carry: all parse, all but one, or none.
AmountTuples ==
    {Amounts1, Amounts2, BadAmounts} \cup
    {[j \in DOMAIN Amounts1 |-> IF j = k THEN BadAmounts[k] ELSE Amounts1[j]] :
        k \in DOMAIN Amounts1}

Account(ident, amts) ==
    [id |-> ident.id, type_ |-> ident.type_, nickname |-> ident.nickname,
     amounts |-> amts]

\* The accounts of the user: identifiers are unique, one has no nickname.
Ident1 == [id |-> "A1", type_ |-> "investment", nickname |-> None]
Ident2 == [id |-> "A2", type_ |-> "tfsa", nickname |-> "RRSP"]

\* The result lists of an accounts response: any of the accounts may be
\* missing.
ResultLists ==
    {<<>>} \cup {<<Account(Ident1, a)>> : a \in AmountTuples}
           \cup {<<Account(Ident2, a)>> : a \in AmountTuples}
           \cup {<<Account(Ident1, a), Account(Ident2, b)>> :
                    a \in AmountTuples, b \in AmountTuples}

\* The body of an accounts response: the account list, text or bytes.
AccountsJson(r) == [kind |-> "json", results |-> r]
AccountsErrorBodies == {[kind |-> k, results |-> <<>>] : k \in {"text", "binary"}}

\* A body that starts as an account list and breaks off after its first
\* account: it does not parse; `results` is what precedes the break.
TruncatedBodies ==
    {[kind |-> "text", results |-> <<Account(Ident1, a)>>] : a \in {Amounts1, Amounts2}}

\* The responses of the accounts endpoint; only a 200 carries an account list.
AccountsBodies(s) ==
    IF s = 200
    THEN {AccountsJson(r) : r \in ResultLists} \cup AccountsErrorBodies
            \cup TruncatedBodies
    ELSE AccountsErrorBodies

AccountsResponses ==
    UNION {{[status |-> s, body |-> b] : b \in AccountsBodies(s)} : s \in {200, 401, 500}}

\* main.rs:163, nickname.unwrap_or("").
label_values(account) ==
    <<account.id, account.type_,
      IF account.nickname = None THEN "" ELSE account.nickname>>

NoGauges == [fam \in FamilySet |-> << >>]

(***************************************************************************)
(* State.                                                                  *)
(***************************************************************************)
VARIABLES
    pc,          \* where the main thread is
    username,    \* main: let username
    password,    \* main: let password
    id,          \* main: let id
    otp_claim,   \* main: let mut otp_claim
    token,       \* main: let mut token
    server,      \* whether the metrics thread has been spawned
    gauges,      \* the four GaugeVec: family -> (label values -> value)
    accounts,    \* accounts.results of the cycle in progress
    cursor,      \* the account and the amount the loop body is at
    \* the frame of the login call in progress
    entry,       \* which call site of main called login
    claimIn,     \* otp_claim when login was called
    sent,        \* the login requests this call has sent
    nPrompt,     \* how often this call has prompted for a one-time code
    first,       \* the response to the first request
    second,      \* the response to the OTP retry
    ret,         \* what login returned
    \* history
    pre,         \* the gauges when the last accounts response arrived, until
                 \* the cycle it starts has ended
    lastStatus,  \* the status of the last accounts response
    gap,         \* what happened since the last accounts response
    netFailed,   \* a send() has failed
    exitCause,   \* why the process has ended
    authSent,    \* the Authorization header of the last accounts request
    granted,     \* what the last call of login that succeeded returned
    malformed,   \* the last accounts response was a 200 that does not parse
    spc,         \* where the metrics thread is
    metrics,     \* the families the request in hand has gathered so far
    fresh,       \* no accounts response has come since the request in hand
    lastSet      \* per family and key, the value of the last set() on it

loginFrame == <<entry, claimIn, sent, nPrompt, first, second, ret>>
mainLocals == <<username, password, id>>
cycleVars == <<accounts, cursor, pre>>
vars == <<pc, username, password, id, otp_claim, token, server, gauges, accounts,
          cursor, entry, claimIn, sent, nPrompt, first, second, ret, pre,
          lastStatus, gap, netFailed, exitCause, authSent, granted, malformed,
          spc, metrics, fresh, lastSet>>
threadVars == <<spc, metrics, fresh>>

NoRet == [kind |-> "none", val |-> None]
Ok(v) == [kind |-> "ok", val |-> v]
Err(why) == [kind |-> "err", val |-> why]

NoGap == [logins |-> 0, sleeps |-> 0, wrote |-> FALSE]
NoCursor == [acct |-> 0, field |-> 0]

Init ==
    /\ pc = "start"
    /\ username = None /\ password = None /\ id = None
    /\ otp_claim = None
    /\ token = None
    /\ server = "none"
    /\ gauges = NoGauges
    /\ accounts = <<>> /\ cursor = NoCursor /\ pre = NoGauges
    /\ entry = None /\ claimIn = None /\ sent = <<>> /\ nPrompt = 0
    /\ first = NoResp /\ second = NoResp /\ ret = NoRet
    /\ lastStatus = 0 /\ gap = NoGap /\ netFailed = FALSE
    /\ exitCause = None
    /\ authSent = None /\ granted = None /\ malformed = FALSE
    /\ spc = "none" /\ metrics = << >> /\ fresh = FALSE
    /\ lastSet = NoGauges


(***************************************************************************)
(* login (main.rs:195-261).                                                *)
(***************************************************************************)
\* A login request: the JSON payload (the fixed scope, grant type and client
\* id are left out) and the three optional headers.
LoginRequest(claimHdr, otpHdr, deviceHdr) ==
    [username |-> username, password |-> password,
     claim |-> claimHdr, otp |-> otpHdr, device |-> deviceHdr]

\* A call of login from the call site `site` of main: a fresh frame.
CallLogin(site) ==
    /\ pc' = "login"
    /\ entry' = site
    /\ claimIn' = otp_claim
    /\ sent' = <<>>
    /\ nPrompt' = 0
    /\ first' = NoResp
    /\ second' = NoResp
    /\ ret' = NoRet

\* The frame after login has returned to main.
DropFrame ==
    /\ claimIn' = None
    /\ sent' = <<>>
    /\ nPrompt' = 0
    /\ first' = NoResp
    /\ second' = NoResp
    /\ ret' = NoRet

\* Faulty variants of the guard, to test the properties against: one that
\* forgets the status, one that accepts any value of the header.
OtpRequired_HeaderOnly(resp) ==
    /\ resp.otp # None
    /\ resp.otp = OtpRequiredApp

OtpRequired_AnyOtpHeader(resp) ==
    /\ resp.status = 401
    /\ resp.otp # None

\* The guard of the first match arm (main.rs:223-227).
OtpRequired(resp) ==
    /\ resp.status = 401
    /\ resp.otp # None
    /\ resp.otp = OtpRequiredApp

\* A faulty variant: the token is returned without its prefix.
BearerOf_NoPrefix(body) ==
    IF body.kind = "json" THEN Ok(body.value) ELSE Err("json")

\* let body: LoginResponse = resp.json()?; Ok(format!("Bearer {}", ..)).
BearerOf(body) ==
    IF body.kind = "json" THEN Ok("Bearer " \o body.value) ELSE Err("json")

\* Err(format!(.., std::str::from_utf8(resp.as_bytes())?).into()).
Rejected(body) ==
    IF IsUtf8(body) THEN Err("AuthenticationFailed") ELSE Err("utf8")

\* What login does with the response to its first request (main.rs:222-260):
\* the next position and the value returned, if it returns.
FirstOutcome(resp) ==
    IF OtpRequired(resp) THEN [pc |-> "otp", ret |-> NoRet]
    ELSE IF resp.status = 200 THEN [pc |-> "login_ret", ret |-> BearerOf(resp.body)]
    ELSE [pc |-> "login_ret", ret |-> Rejected(resp.body)]

\* A faulty variant: the cached claim is never sent.
ClaimHeader_Dropped(cached) == None

\* main.rs:216-218: the claim header of the first request, None when the
\* request carries no such header.
ClaimHeader(cached) == cached

\* main.rs:201-228, 250-260: the first request and the match on its status.
LoginFirst ==
    /\ pc = "login"
    /\ sent' = Append(sent, LoginRequest(ClaimHeader(otp_claim), None, None))
    /\ \/ /\ netFailed' = TRUE
          /\ ret' = Err("transport")
          /\ pc' = "login_ret"
          /\ first' = first
       \/ \E resp \in FirstResponses :
             /\ first' = resp
             /\ pc' = FirstOutcome(resp).pc
             /\ ret' = FirstOutcome(resp).ret
             /\ netFailed' = netFailed
    /\ UNCHANGED <<mainLocals, otp_claim, token, server, gauges, cycleVars, entry,
                   claimIn, nPrompt, second, lastStatus, gap, exitCause>>
    /\ UNCHANGED <<authSent, granted, malformed>>
    /\ UNCHANGED <<threadVars, lastSet>>

\* Where login goes after the prompt has returned a code.
AfterPrompt == "retry"

\* main.rs:229: the prompt for the one-time code; reading the terminal can fail.
LoginPrompt ==
    /\ pc = "otp"
    /\ nPrompt' = nPrompt + 1
    /\ \/ pc' = AfterPrompt /\ ret' = ret
       \/ pc' = "login_ret" /\ ret' = Err("io")
    /\ UNCHANGED <<mainLocals, otp_claim, token, server, gauges, cycleVars, entry,
                   claimIn, sent, first, second, lastStatus, gap, netFailed,
                   exitCause>>
    /\ UNCHANGED <<authSent, granted, malformed>>
    /\ UNCHANGED <<threadVars, lastSet>>

\* A faulty variant: a rejected retry asks for another code.
AfterRetryRejected_Reprompt == "otp"

\* Where login goes when the OTP retry is answered by a status other than 200.
AfterRetryRejected == "login_ret"

\* main.rs:230-248: the OTP retry.  Indexing the headers panics when the
\* response carries no claim; the claim is replaced before the body is parsed.
LoginRetry ==
    /\ pc = "retry"
    /\ sent' = Append(sent, LoginRequest(None, OtpCode \o ";remember=true", id))
    /\ \/ /\ netFailed' = TRUE
          /\ ret' = Err("transport")
          /\ pc' = "login_ret"
          /\ UNCHANGED <<second, otp_claim, exitCause>>
       \/ \E resp \in RetryResponses :
             /\ second' = resp
             /\ netFailed' = netFailed
             /\ IF resp.status = 200
                THEN IF resp.claim = None
                     THEN /\ pc' = "exit"
                          /\ exitCause' = "panic"
                          /\ UNCHANGED <<otp_claim, ret>>
                     ELSE /\ otp_claim' = resp.claim
                          /\ ret' = BearerOf(resp.body)
                          /\ pc' = "login_ret"
                          /\ exitCause' = exitCause
                ELSE /\ ret' = Rejected(resp.body)
                     /\ pc' = AfterRetryRejected
                     /\ UNCHANGED <<otp_claim, exitCause>>
    /\ UNCHANGED <<mainLocals, token, server, gauges, cycleVars, entry, claimIn,
                   nPrompt, first, lastStatus, gap>>
    /\ UNCHANGED <<authSent, granted, malformed>>
    /\ UNCHANGED <<threadVars, lastSet>>

(***************************************************************************)
(* main (main.rs:105-184).                                                 *)
(***************************************************************************)
\* main.rs:106-111: the two prompts, the device id, the first call of login.
MainStart ==
    /\ pc = "start"
    /\ \/ /\ username' = Username
          /\ password' = Password
          /\ id' = DeviceId
          /\ CallLogin("initial")
          /\ exitCause' = exitCause
       \/ /\ pc' = "exit"
          /\ exitCause' = "io"
          /\ UNCHANGED <<mainLocals, loginFrame>>
    /\ UNCHANGED <<otp_claim, token, server, gauges, cycleVars, lastStatus, gap,
                   netFailed>>
    /\ UNCHANGED <<authSent, granted, malformed>>
    /\ UNCHANGED <<threadVars, lastSet>>

\* A faulty variant: the metrics thread is started although the first login
\* has failed.
AfterLoginError_ServeAnyway(site) == IF site = "initial" THEN "spawn" ELSE "exit"

\* A faulty variant: a failed re-authentication goes round the loop again.
AfterLoginError_RetryLoop(site) == IF site = "initial" THEN "exit" ELSE "poll"

\* Where main goes when a call of login has returned an error: both call
\* sites end in `?`.
AfterLoginError(site) == "exit"

\* A faulty variant: the poller sleeps before it retries with the new token.
AfterLoginOk_SleepFirst(site) == IF site = "initial" THEN "spawn" ELSE "sleep"

\* A faulty variant: the loop gives up after a re-login.
AfterLoginOk_GiveUp(site) == IF site = "initial" THEN "spawn" ELSE "exit"

\* Where main goes when a call of login has returned a token: on to the spawn
\* of the metrics thread at start, `continue` in the loop.
AfterLoginOk(site) == IF site = "initial" THEN "spawn" ELSE "poll"

\* main.rs:111 and 152: `token = login(..)?`.
MainLoginReturn ==
    /\ pc = "login_ret"
    /\ IF ret.kind = "ok"
       THEN /\ token' = ret.val
            /\ pc' = AfterLoginOk(entry)
            /\ entry' = None
            /\ exitCause' = exitCause
       ELSE /\ pc' = AfterLoginError(entry)
            /\ exitCause' = IF AfterLoginError(entry) = "exit" THEN ret.val ELSE exitCause
            /\ UNCHANGED <<token, entry>>
    /\ DropFrame
    /\ UNCHANGED <<mainLocals, otp_claim, server, gauges, cycleVars, lastStatus,
                   gap, netFailed>>
    /\ granted' = IF ret.kind = "ok" THEN ret.val ELSE granted
    /\ UNCHANGED <<authSent, malformed>>
    /\ UNCHANGED <<threadVars, lastSet>>

\* main.rs:113-138: the metrics thread is spawned.
MainSpawn ==
    /\ pc = "spawn"
    /\ server' = "running"
    /\ pc' = "poll"
    /\ UNCHANGED <<mainLocals, otp_claim, token, gauges, cycleVars, loginFrame,
                   lastStatus, gap, netFailed, exitCause>>
    /\ UNCHANGED <<authSent, granted, malformed>>
    /\ spc' = "bind"
    /\ UNCHANGED <<metrics, fresh, lastSet>>

\* A faulty variant: an unexpected status skips the cycle instead of ending
\* the process.
AccountsOutcome_SkipCycle(resp) ==
    IF resp.status = 401
    THEN IF IsUtf8(resp.body) THEN [pc |-> "login", cause |-> None]
         ELSE [pc |-> "exit", cause |-> "utf8"]
    ELSE IF resp.status # 200 THEN [pc |-> "sleep", cause |-> None]
    ELSE IF resp.body.kind # "json" THEN [pc |-> "exit", cause |-> "json"]
    ELSE IF resp.body.results = <<>> THEN [pc |-> "sleep", cause |-> None]
    ELSE [pc |-> "write", cause |-> None]

\* A faulty variant: a cycle without accounts goes on without the sleep.
AccountsOutcome_NoSleepWhenEmpty(resp) ==
    IF resp.status = 401
    THEN IF IsUtf8(resp.body) THEN [pc |-> "login", cause |-> None]
         ELSE [pc |-> "exit", cause |-> "utf8"]
    ELSE IF resp.status # 200
    THEN [pc |-> "exit",
          cause |-> IF IsUtf8(resp.body) THEN "UnexpectedStatus" ELSE "utf8"]
    ELSE IF resp.body.kind # "json" THEN [pc |-> "exit", cause |-> "json"]
    ELSE IF resp.body.results = <<>> THEN [pc |-> "poll", cause |-> None]
    ELSE [pc |-> "write", cause |-> None]

\* A faulty variant: the accounts of a body that breaks off are written
\* before the break is found.
AccountsOutcome_Streaming(resp) ==
    IF resp.status = 401
    THEN IF IsUtf8(resp.body) THEN [pc |-> "login", cause |-> None]
         ELSE [pc |-> "exit", cause |-> "utf8"]
    ELSE IF resp.status # 200
    THEN [pc |-> "exit",
          cause |-> IF IsUtf8(resp.body) THEN "UnexpectedStatus" ELSE "utf8"]
    ELSE IF resp.body.results = <<>>
    THEN IF resp.body.kind # "json" THEN [pc |-> "exit", cause |-> "json"]
         ELSE [pc |-> "sleep", cause |-> None]
    ELSE [pc |-> "write", cause |-> None]

\* What the loop does with an accounts response (main.rs:147-160): the next
\* position of main and, if the process ends, why.
AccountsOutcome(resp) ==
    IF resp.status = 401
    THEN IF IsUtf8(resp.body) THEN [pc |-> "login", cause |-> None]
         ELSE [pc |-> "exit", cause |-> "utf8"]
    ELSE IF resp.status # 200
    THEN [pc |-> "exit",
          cause |-> IF IsUtf8(resp.body) THEN "UnexpectedStatus" ELSE "utf8"]
    ELSE IF resp.body.kind # "json" THEN [pc |-> "exit", cause |-> "json"]
    ELSE IF resp.body.results = <<>> THEN [pc |-> "sleep", cause |-> None]
    ELSE [pc |-> "write", cause |-> None]

\* A faulty variant: the request carries what login returned first.
Authorization_Stale == IF authSent = None THEN token ELSE authSent

\* main.rs:142: .with_header("Authorization", &token).
Authorization == token

\* A faulty variant: a failed accounts request is sent again.
AfterTransportError_Retry == "poll"

\* Where main goes when the accounts request fails in transport (`.send()?`).
AfterTransportError == "exit"

\* main.rs:141-160: the accounts request, the match on its status, the parse.
AccountsRequest ==
    /\ pc = "poll"
    /\ authSent' = Authorization
    /\ \/ /\ netFailed' = TRUE
          /\ pc' = AfterTransportError
          /\ exitCause' = "transport"
          /\ UNCHANGED <<loginFrame, cycleVars, lastStatus, gap, malformed>>
       \/ \E resp \in AccountsResponses :
             LET out == AccountsOutcome(resp) IN
             /\ netFailed' = netFailed
             /\ malformed' = (resp.status = 200 /\ resp.body.kind # "json")
             /\ lastStatus' = resp.status
             /\ pre' = gauges
             /\ exitCause' = out.cause
             /\ IF out.pc = "login"
                THEN /\ CallLogin("reauth")
                     /\ gap' = [NoGap EXCEPT !.logins = 1]
                     /\ UNCHANGED <<accounts, cursor>>
                ELSE /\ pc' = out.pc
                     /\ gap' = NoGap
                     /\ accounts' = IF out.pc \in {"write", "sleep"}
                                    THEN resp.body.results ELSE <<>>
                     /\ cursor' = IF out.pc = "write" THEN [acct |-> 1, field |-> 1]
                                  ELSE NoCursor
                     /\ UNCHANGED loginFrame
    /\ UNCHANGED <<mainLocals, otp_claim, token, server, gauges>>
    /\ UNCHANGED granted
    /\ fresh' = FALSE
    /\ UNCHANGED <<spc, metrics, lastSet>>

\* The value of a gauge.
GaugeValue(amount) == [mant |-> amount.mant, frac |-> amount.frac]

\* Faulty variants: an amount that does not parse zeroes the gauge; a set
\* rebuilds the family with the one key.
SetIfParsed_ZeroOnError(g, fam, key, s) ==
    LET amount == ParseF64(s)
    IN  [g EXCEPT ![fam] = (key :> GaugeValue(amount)) @@ @]

SetIfParsed_FreshFamily(g, fam, key, s) ==
    LET amount == ParseF64(s)
    IN  IF amount.ok THEN [g EXCEPT ![fam] = (key :> GaugeValue(amount))]
        ELSE g

\* A faulty variant: a set() that stores the value in two halves, of which a
\* reader can see the first alone.
SetIfParsed_Torn(g, fam, key, s) ==
    LET amount == ParseF64(s)
    IN  IF ~amount.ok THEN g
        ELSE IF key \in DOMAIN g[fam]
        THEN [g EXCEPT ![fam][key] = [mant |-> amount.mant, frac |-> @.frac]]
        ELSE [g EXCEPT ![fam] = (key :> GaugeValue(amount)) @@ @]

\* if let Ok(amount) = f64::from_str(s) { FAMILY.with_label_values(key).set(amount) }
\* (main.rs:165-179): the gauges afterwards.
SetIfParsed(g, fam, key, s) ==
    LET amount == ParseF64(s)
    IN  IF amount.ok THEN [g EXCEPT ![fam] = (key :> GaugeValue(amount)) @@ @]
        ELSE g

\* The last values set, after the `if let` on `amount` for the gauge of
\* `key` in the family `fam`: a set() happens when the amount has parsed.
LastSetAfter(last, fam, key, amount) ==
    IF amount.ok
    THEN [f \in FamilySet |->
            IF f = fam
            THEN [k \in DOMAIN last[f] \cup {key} |->
                    IF k = key THEN GaugeValue(amount) ELSE last[f][k]]
            ELSE last[f]]
    ELSE last

\* main.rs:162-180: one of the four `if let` of the loop body, for the account
\* and the amount the cursor is at.
SetGauge ==
    /\ pc = "write"
    /\ LET account == accounts[cursor.acct]
           s == account.amounts[cursor.field]
       IN  /\ gauges' = SetIfParsed(gauges, Families[cursor.field],
                                    label_values(account), s)
           /\ gap' = [gap EXCEPT !.wrote = @ \/ ParseF64(s).ok]
           /\ lastSet' = LastSetAfter(lastSet, Families[cursor.field],
                                      label_values(account), ParseF64(s))
    /\ IF cursor.field < Len(Families)
       THEN pc' = pc /\ cursor' = [cursor EXCEPT !.field = @ + 1]
       ELSE IF cursor.acct < Len(accounts)
       THEN pc' = pc /\ cursor' = [acct |-> cursor.acct + 1, field |-> 1]
       ELSE pc' = "sleep" /\ cursor' = NoCursor
    /\ UNCHANGED <<mainLocals, otp_claim, token, server, accounts, pre, loginFrame,
                   lastStatus, netFailed, exitCause>>
    /\ UNCHANGED <<authSent, granted, malformed>>
    /\ UNCHANGED threadVars

\* main.rs:182: the sleep that ends a cycle.
MainSleep ==
    /\ pc = "sleep"
    /\ pc' = "poll"
    /\ gap' = [gap EXCEPT !.sleeps = @ + 1]
    /\ accounts' = <<>>
    /\ pre' = NoGauges
    /\ UNCHANGED <<mainLocals, otp_claim, token, server, gauges, cursor, loginFrame,
                   lastStatus, netFailed, exitCause>>
    /\ UNCHANGED <<authSent, granted, malformed>>
    /\ UNCHANGED <<threadVars, lastSet>>

(***************************************************************************)
(* The metrics thread (main.rs:113-138).  It shares only the gauges with   *)
(* main, and ends with the process.                                        *)
(***************************************************************************)
Urls == {"/metrics", "/other"}
Serving == {"accept", "gather", "respond"}

\* main.rs:114: Server::http("0.0.0.0:8080").unwrap(); when the port cannot
\* be bound the unwrap panics and the thread ends, main goes on.
ServerBind ==
    /\ pc # "exit" /\ spc = "bind"
    /\ spc' \in {"accept", "dead"}
    /\ UNCHANGED <<mainLocals, otp_claim, token, server, gauges, cycleVars,
                   loginFrame, lastStatus, gap, netFailed, exitCause, pc,
                   authSent, granted, malformed, metrics, fresh, lastSet>>

\* main.rs:116-125: the next request; any path but /metrics is answered 404
\* at once (a failure to respond is logged).
ServerAccept ==
    /\ pc # "exit" /\ spc = "accept"
    /\ \E url \in Urls :
          IF url # "/metrics"
          THEN UNCHANGED <<spc, metrics, fresh>>
          ELSE /\ spc' = "gather"
               /\ metrics' = << >>
               /\ fresh' = TRUE
    /\ UNCHANGED <<mainLocals, otp_claim, token, server, gauges, cycleVars,
                   loginFrame, lastStatus, gap, netFailed, exitCause, pc,
                   authSent, granted, malformed, lastSet>>

\* A faulty variant: the endpoint reports the values of the start of the
\* cycle while a cycle is under way.
Collect_Cached(fam) == IF pc = "write" THEN pre[fam] ELSE gauges[fam]

\* What the collector of one family reports: the value of each of its gauges
\* at that moment.
Collect(fam) == gauges[fam]

\* main.rs:127: prometheus::gather() collects the registered families one
\* after the other, in no given order.
ServerGather ==
    /\ pc # "exit" /\ spc = "gather"
    /\ \E fam \in FamilySet \ DOMAIN metrics :
          /\ metrics' = (fam :> Collect(fam)) @@ metrics
          /\ spc' = IF DOMAIN metrics \cup {fam} = FamilySet THEN "respond" ELSE spc
    /\ UNCHANGED <<mainLocals, otp_claim, token, server, gauges, cycleVars,
                   loginFrame, lastStatus, gap, netFailed, exitCause, pc,
                   authSent, granted, malformed, fresh, lastSet>>

\* main.rs:128-136: the families are encoded and sent; a failure to encode
\* or to send is logged and the thread takes the next request.
ServerRespond ==
    /\ pc # "exit" /\ spc = "respond"
    /\ spc' = "accept"
    /\ metrics' = << >>
    /\ fresh' = FALSE
    /\ UNCHANGED <<mainLocals, otp_claim, token, server, gauges, cycleVars,
                   loginFrame, lastStatus, gap, netFailed, exitCause, pc,
                   authSent, granted, malformed, lastSet>>

\* The account lists and the login answers of the runs with the metrics
\* thread: two lists of the same two accounts with different amounts, one
\* token, one claim.
ThreadLists ==
    {<<>>,
     <<Account(Ident1, Amounts1), Account(Ident2, Amounts1)>>,
     <<Account(Ident1, Amounts2), Account(Ident2, Amounts2)>>}

ThreadFirst ==
    {NoResp,
     [status |-> 200, otp |-> None, claim |-> None, body |-> JsonBody("tok1")],
     [status |-> 401, otp |-> OtpRequiredApp, claim |-> None, body |-> TextBody],
     [status |-> 401, otp |-> None, claim |-> None, body |-> TextBody]}

ThreadSecond ==
    {NoResp,
     [status |-> 200, otp |-> None, claim |-> "claim1", body |-> JsonBody("tok1")]}

SmallWorld ==
    /\ accounts \in ThreadLists
    /\ first \in ThreadFirst
    /\ second \in ThreadSecond

Next ==
    \/ MainStart
    \/ LoginFirst
    \/ LoginPrompt
    \/ LoginRetry
    \/ MainLoginReturn
    \/ MainSpawn
    \/ AccountsRequest
    \/ SetGauge
    \/ MainSleep

Spec == Init /\ [][Next]_vars

\* main and the metrics thread, interleaved.
NextThreads ==
    \/ MainStart /\ SmallWorld'
    \/ LoginFirst /\ SmallWorld'
    \/ LoginPrompt /\ SmallWorld'
    \/ LoginRetry /\ SmallWorld'
    \/ MainLoginReturn /\ SmallWorld'
    \/ MainSpawn /\ SmallWorld'
    \/ AccountsRequest /\ SmallWorld'
    \/ SetGauge /\ SmallWorld'
    \/ MainSleep /\ SmallWorld'
    \/ ServerBind
    \/ ServerAccept
    \/ ServerGather
    \/ ServerRespond

SpecThreads == Init /\ [][NextThreads]_vars

(***************************************************************************)
(* Properties.                                                             *)
(***************************************************************************)
TypeOK ==
    /\ pc \in {"start", "login", "otp", "retry", "login_ret", "spawn", "poll",
               "write", "sleep", "exit"}
    /\ otp_claim \in Claims \cup {None}
    /\ token \in {None} \cup {"Bearer " \o t : t \in Tokens}
    /\ server \in {"none", "running"}
    /\ entry \in {None, "initial", "reauth"}
    /\ nPrompt \in 0..1
    /\ Len(sent) \in 0..2
    /\ lastStatus \in {0, 200, 401, 500}
    /\ ret.kind \in {"none", "ok", "err"}
    /\ DOMAIN gauges = FamilySet
    /\ authSent \in {None} \cup {"Bearer " \o t : t \in Tokens}
    /\ granted \in {None} \cup {"Bearer " \o t : t \in Tokens}
    /\ malformed \in BOOLEAN /\ fresh \in BOOLEAN
    /\ spc \in {"none", "bind", "dead"} \cup Serving
    /\ DOMAIN metrics \subseteq FamilySet
    /\ DOMAIN lastSet = FamilySet

\* The first response of the call of login in progress started the OTP
\* challenge.
Challenged == first.status = 401 /\ first.otp = OtpRequiredApp

\* login has returned to main, or has ended the process by a panic.
LoginEnded == pc = "login_ret" \/ (pc = "exit" /\ exitCause = "panic")

\* C1: a call of login whose first request is answered 200 with a body
\* {access_token: t} returns "Bearer " followed by t at once: it has sent one
\* request, has not prompted, and the cached claim is the one of entry.
C1_Login200 ==
    (first.status = 200 /\ first.body.kind = "json") =>
        /\ pc = "login_ret"
        /\ ret = Ok("Bearer " \o first.body.value)
        /\ Len(sent) = 1
        /\ nPrompt = 0
        /\ otp_claim = claimIn

\* C1's case, with a claim cached and the OTP header on the 200.
C1_Witness ==
    /\ pc = "login_ret"
    /\ first.status = 200 /\ first.body.kind = "json"
    /\ first.otp = OtpRequiredApp
    /\ claimIn \in Claims
    /\ ret.kind = "ok"

\* C2 as stated: a call of login whose first response is the OTP challenge
\* has, when it ends, prompted exactly once and sent exactly two requests.
C2_Original ==
    (Challenged /\ LoginEnded) => (nPrompt = 1 /\ Len(sent) = 2)

\* C2, amended: a challenged call prompts exactly once; when the prompt
\* returns a code it sends exactly one more request, whatever the answer to
\* it, and when reading the code fails it returns that error with no second
\* request.  It never prompts twice or sends a third request.
C2_ChallengeOnce ==
    Challenged =>
        /\ nPrompt <= 1 /\ Len(sent) <= 2
        /\ pc = "otp" => (nPrompt = 0 /\ Len(sent) = 1)
        /\ pc = "retry" => (nPrompt = 1 /\ Len(sent) = 1)
        /\ LoginEnded =>
              /\ nPrompt = 1
              /\ IF ret = Err("io") THEN Len(sent) = 1 ELSE Len(sent) = 2

\* C2's case: the retry was sent and rejected, and login has returned.
C2_Witness ==
    /\ Challenged /\ pc = "login_ret"
    /\ second.status = 401
    /\ nPrompt = 1 /\ Len(sent) = 2
    /\ ret.kind = "err"

\* C3: a first response that is a 401 without the exact header value, or any
\* status other than 200 and 401, makes login return an error with one
\* request sent and no prompt; the challenge is entered (a prompt, a second
\* request) only after a 401 with the exact header value.
C3_NoChallengeNoRetry ==
    /\ (first.status # 0 /\ first.status # 200 /\ ~Challenged) =>
          /\ pc = "login_ret"
          /\ ret.kind = "err"
          /\ nPrompt = 0
          /\ Len(sent) = 1
    /\ (pc \in {"otp", "retry"} \/ nPrompt > 0 \/ Len(sent) > 1) => Challenged

\* C3's case: a 401 whose header has another value.
C3_Witness ==
    /\ pc = "login_ret"
    /\ first.status = 401 /\ first.otp \notin {None, OtpRequiredApp}
    /\ ret.kind = "err" /\ Len(sent) = 1

C5_Original ==
    ~(pc = "exit" /\ entry = "reauth" /\ exitCause = "AuthenticationFailed")

\* C5, amended: an error returned by login ends the process at either call
\* site, at start and in the loop alike; there is no re-login.
C5_LoginErrorIsFatal ==
    [][(pc = "login_ret" /\ ret.kind = "err") =>
          (pc' = "exit" /\ exitCause' = ret.val)]_vars

\* C5's case: the process has ended on a rejected re-authentication.
C5_Witness ==
    /\ pc = "exit" /\ entry = "reauth" /\ exitCause = "AuthenticationFailed"
    /\ lastStatus = 401

\* C6 as stated: every 401 from the accounts endpoint, whatever its body, is
\* followed by a call of login with the retained credentials and claim.
C6_Original ==
    lastStatus = 401 =>
        /\ gap.logins = 1
        /\ pc = "login" => (entry = "reauth" /\ claimIn = otp_claim)

\* The family f has for `key` what the family g has: the same value, or none.
SameEntry(f, g, key) ==
    IF key \in DOMAIN g THEN key \in DOMAIN f /\ f[key] = g[key]
    ELSE key \notin DOMAIN f

\* C7: when a cycle has run through, every gauge of every account of the
\* response whose amount parses holds the parsed value, and every gauge
\* whose amount does not parse is as it was before the cycle, value or
\* absence; the loop over the accounts never ends the process.
C7_UnparsedKeepsGauge ==
    /\ pc = "sleep" =>
          \A i \in DOMAIN accounts : \A j \in DOMAIN Families :
              LET key == label_values(accounts[i])
                  amount == ParseF64(accounts[i].amounts[j])
              IN  IF amount.ok
                  THEN /\ key \in DOMAIN gauges[Families[j]]
                       /\ gauges[Families[j]][key] = GaugeValue(amount)
                  ELSE SameEntry(gauges[Families[j]], pre[Families[j]], key)
    /\ cursor # NoCursor => pc = "write"

\* C7's case: two accounts, an amount that does not parse for a gauge that
\* had a value, and the other gauges changed by the cycle.
C7_Witness ==
    /\ pc = "sleep" /\ Len(accounts) = 2
    /\ gauges # pre
    /\ \E i \in DOMAIN accounts : \E j \in DOMAIN Families :
          /\ ~ParseF64(accounts[i].amounts[j]).ok
          /\ label_values(accounts[i]) \in DOMAIN pre[Families[j]]

\* C8: an accounts response with a status other than 200 and 401 ends the
\* process with an error: no login, no gauge write, no sleep, and nothing is
\* enabled afterwards.
C8_UnexpectedStatusFatal ==
    lastStatus \notin {0, 200, 401} =>
        /\ pc = "exit"
        /\ exitCause \in {"UnexpectedStatus", "utf8"}
        /\ gap = NoGap
        /\ gauges = pre
        /\ ~ENABLED Next

\* C8's case: a 500 after gauges have been set.
C8_Witness ==
    /\ lastStatus = 500 /\ pc = "exit"
    /\ gauges # NoGauges

\* C9: once a request has failed in transport, no request is sent, no code
\* is asked for and no gauge is written: the failure is on its way out of
\* main (login has returned it) or has ended the process.
C9_TransportFatal ==
    netFailed =>
        /\ \/ pc = "exit" /\ exitCause = "transport" /\ ~ENABLED Next
           \/ pc = "login_ret" /\ ret = Err("transport")
        /\ ~ENABLED (LoginFirst \/ LoginPrompt \/ LoginRetry \/ AccountsRequest
                       \/ SetGauge \/ MainSleep)

\* C9's case: the accounts request fails after gauges were set.
C9_Witness ==
    /\ netFailed /\ pc = "exit" /\ lastStatus = 200
    /\ gauges # NoGauges

\* The label values of the accounts of a result list.
KeysOf(accts) == {label_values(accts[i]) : i \in DOMAIN accts}

\* Since the last accounts response, every key that was set is still set, and
\* has its value unless it is the key of an account of that response.
C10_Frame ==
    \A fam \in FamilySet : \A k \in DOMAIN pre[fam] :
        /\ k \in DOMAIN gauges[fam]
        /\ k \notin KeysOf(accounts) => gauges[fam][k] = pre[fam][k]

\* A step removes no key and changes at most the gauge the loop body is at.
C10_Step ==
    \A fam \in FamilySet :
        /\ DOMAIN gauges[fam] \subseteq DOMAIN gauges'[fam]
        /\ \A k \in DOMAIN gauges'[fam] :
              ~SameEntry(gauges'[fam], gauges[fam], k) =>
                  /\ pc = "write"
                  /\ fam = Families[cursor.field]
                  /\ k = label_values(accounts[cursor.acct])

\* C10: a key that is in a gauge family stays in it for the rest of the run;
\* a step changes at most the gauge the loop body is at, and after an accounts
\* response every key that is not of an account of that response keeps the
\* value it had.
C10_GaugesPersist == []C10_Frame /\ [][C10_Step]_vars

\* C10's case: a cycle has changed gauges while an account with gauges set
\* was missing from the response.
C10_Witness ==
    /\ pc = "sleep" /\ accounts # <<>> /\ gauges # pre
    /\ \E fam \in FamilySet : \E k \in DOMAIN pre[fam] : k \notin KeysOf(accounts)

\* The OTP retry of the call of login in progress has been answered.
Retried == second # NoResp

\* C12 as stated: when the OTP retry is answered 200, login returns "Bearer "
\* followed by the access token of that response and the cached claim is the
\* claim header of that response; when it is answered by another status,
\* login returns an authentication error and the cached claim is unchanged.
C12_Original ==
    (Retried /\ LoginEnded) =>
        IF second.status = 200
        THEN /\ pc = "login_ret"
             /\ ret = Ok("Bearer " \o second.body.value)
             /\ otp_claim = second.claim
        ELSE /\ pc = "login_ret"
             /\ ret.kind = "err"
             /\ otp_claim = claimIn

\* C12, amended: a 200 that carries the claim header and a body
\* {access_token: t} makes login return "Bearer " followed by t with the
\* cached claim replaced by the header; a 200 without the claim header ends
\* the process in a panic, the claim untouched; a 200 with the claim header
\* and a body that does not parse makes login return the parse error with the
\* claim already replaced; any other status makes login return an error (the
\* authentication error, or the UTF-8 error of a body that is not text) with
\* the claim unchanged.
C12_RetryOutcome ==
    Retried =>
        /\ LoginEnded
        /\ (second.status = 200 /\ second.claim # None /\ second.body.kind = "json") =>
              /\ pc = "login_ret"
              /\ ret = Ok("Bearer " \o second.body.value)
              /\ otp_claim = second.claim
        /\ (second.status = 200 /\ second.claim = None) =>
              /\ pc = "exit" /\ exitCause = "panic"
              /\ ret = NoRet
              /\ otp_claim = claimIn
        /\ (second.status = 200 /\ second.claim # None /\ second.body.kind # "json") =>
              /\ pc = "login_ret"
              /\ ret = Err("json")
              /\ otp_claim = second.claim
        /\ second.status # 200 =>
              /\ pc = "login_ret"
              /\ ret = IF IsUtf8(second.body) THEN Err("AuthenticationFailed")
                       ELSE Err("utf8")
              /\ otp_claim = claimIn

\* C12's case: a retry answered 200 has replaced a claim cached before by
\* another one, and login has returned the token of the second response.
C12_Witness ==
    /\ pc = "login_ret" /\ second.status = 200
    /\ claimIn \in Claims /\ otp_claim # claimIn
    /\ ret.kind = "ok" /\ ret.val = "Bearer " \o second.body.value

\* What a step does to the cached claim and to the first request of a call.
C13_Step ==
    /\ otp_claim # None => otp_claim' # None
    /\ otp_claim' # otp_claim =>
          /\ pc = "retry" /\ second'.status = 200
          /\ otp_claim' = second'.claim
    /\ (pc = "login" /\ pc' # "login") =>
          /\ Len(sent') = 1
          /\ sent'[1].claim = otp_claim
          /\ otp_claim' = otp_claim

\* C13: the cached claim is never reset to absent and changes only in the
\* step that receives a 200 to the OTP retry, to the claim header of that
\* response; the first request of every call of login carries the claim
\* header with the value cached at that moment, and no claim header while
\* nothing is cached.
C13_ClaimCache ==
    [][C13_Step]_vars

\* C13's case: a call of login made by the loop has sent, as the claim header
\* of its first request, a claim that an earlier call cached.
C13_Witness ==
    /\ entry = "reauth" /\ Len(sent) >= 1
    /\ sent[1].claim \in Claims /\ sent[1].claim = otp_claim
    /\ first # NoResp

\* C18 as stated: whenever login returns an error, the cached claim has the
\* value it had when login was called.
C18_Original ==
    (pc = "login_ret" /\ ret.kind = "err") => otp_claim = claimIn

\* The credential is the value the last successful call of login returned.
C14_Current ==
    /\ (token = None) = (granted = None)
    /\ token # None => token = granted
    /\ (pc = "poll" /\ lastStatus = 401) => (token # None /\ gap.logins = 1)
    /\ (authSent # None /\ authSent # token) => lastStatus = 401

\* An accounts request carries the credential; the credential changes only
\* when a call of login returns a token, and after the first call only in a
\* call made because of a 401.
C14_Step ==
    /\ (pc = "poll" /\ pc' # "poll") => (authSent' = token /\ token = granted)
    /\ pc # "poll" => authSent' = authSent
    /\ token' # token =>
          /\ pc = "login_ret" /\ ret.kind = "ok"
          /\ token' = ret.val /\ granted' = ret.val
          /\ token # None => (entry = "reauth" /\ lastStatus = 401)

\* C14: every accounts request carries the credential returned by the most
\* recent successful call of login, so the request after a 401 carries what
\* the call of login made for that 401 returned; the credential changes only
\* at a successful login, and after the initial one only following a 401.
C14_OneCredential ==
    []C14_Current /\ [][C14_Step]_vars

\* C14's case: an accounts request was refused with one credential and the
\* call of login made for it has put another one in its place.
C14_Witness ==
    /\ pc = "poll" /\ lastStatus = 401
    /\ authSent # None /\ token # authSent /\ token = granted

\* What separates the accounts request about to be sent from the one before
\* it, and where the sleeps and the gauge writes are.
C15_Gap ==
    /\ pc = "poll" =>
          /\ lastStatus = 0 => gap = NoGap
          /\ lastStatus = 200 => (gap.sleeps = 1 /\ gap.logins = 0)
          /\ lastStatus = 401 => (gap.sleeps = 0 /\ gap.logins = 1)
          /\ lastStatus \in {0, 200, 401}
    /\ pc \in {"write", "sleep"} => (lastStatus = 200 /\ gap.sleeps = 0)
    /\ pc = "sleep" => cursor = NoCursor

\* The sleep is the step from the end of a cycle to the next request; gauges
\* are not written once the cycle has slept.
C15_Step ==
    /\ gap'.sleeps # gap.sleeps =>
          \/ pc = "poll" /\ gap'.sleeps = 0
          \/ /\ pc = "sleep" /\ pc' = "poll"
             /\ lastStatus = 200 /\ ~malformed
             /\ gap'.sleeps = gap.sleeps + 1
    /\ pc = "sleep" => (pc' = "poll" /\ gauges' = gauges)
    /\ gauges' # gauges => (pc = "write" /\ gap.sleeps = 0)

\* C15: the loop sleeps exactly once after each cycle whose accounts
\* response was a parsed 200, after the gauge writes of the cycle and before
\* the next accounts request, and nowhere else; two consecutive accounts
\* requests are separated by exactly one sleep and no login after a 200, and
\* by exactly one login and no sleep after a 401.
C15_SleepOncePerCycle ==
    []C15_Gap /\ [][C15_Step]_vars

\* C15's case: the request after a cycle that has written gauges is about to
\* be sent, one sleep after the writes.
C15_Witness ==
    /\ pc = "poll" /\ lastStatus = 200
    /\ gap.wrote /\ gap.sleeps = 1 /\ gap.logins = 0

\* C20: a 200 accounts response is parsed in full before any gauge is
\* written: when its body does not parse, also when it breaks off after a
\* well-formed account, the process ends with the parse error and every
\* gauge of every family is as it was when the response arrived.
C20_ParseBeforeWrite ==
    /\ malformed =>
          /\ pc = "exit" /\ exitCause = "json" /\ lastStatus = 200
          /\ gauges = pre /\ ~gap.wrote
          /\ accounts = <<>> /\ cursor = NoCursor
    /\ pc = "write" => ~malformed

\* C20's case: a 200 that does not parse has ended the process after earlier
\* cycles had set gauges.
C20_Witness ==
    /\ malformed /\ pc = "exit"
    /\ \E fam \in FamilySet : DOMAIN gauges[fam] # {}

\* The process has ended, and what has ended it is a failure: of a prompt, of
\* a request at transport level, of a call of login, or an accounts response
\* that is neither a 200 that parses nor a 401 with a text body.
C16_ExitIsFailure ==
    pc = "exit" =>
        \/ exitCause = "transport" /\ netFailed
        \/ exitCause = "io" /\ (token = None \/ entry # None)
        \/ exitCause \in {"AuthenticationFailed", "panic"} /\ entry # None
        \/ exitCause \in {"json", "utf8"} /\ entry # None
        \/ exitCause = "json" /\ entry = None /\ malformed
        \/ exitCause = "utf8" /\ entry = None /\ lastStatus \notin {0, 200}
        \/ exitCause = "UnexpectedStatus" /\ entry = None
              /\ lastStatus \notin {0, 200, 401}

\* While the process has not ended, the loop can go on: a request can be
\* answered 401 whatever came before, the call of login that follows can
\* return a token, and main then sends the next request.
C16_CanGoOn ==
    /\ pc = "poll" => ENABLED (AccountsRequest /\ pc' = "login")
    /\ pc = "poll" => ENABLED (AccountsRequest /\ pc' \in {"write", "sleep"})
    /\ pc = "login" => ENABLED (LoginFirst /\ ret'.kind = "ok")
    /\ (pc = "login_ret" /\ ret.kind = "ok" /\ entry = "reauth") =>
          ENABLED (MainLoginReturn /\ pc' = "poll")
    /\ pc = "otp" => ENABLED (LoginPrompt /\ pc' = "retry")
    /\ pc = "retry" => ENABLED (LoginRetry /\ ret'.kind = "ok")
    /\ pc = "spawn" => ENABLED MainSpawn
    /\ pc = "sleep" => ENABLED MainSleep
    /\ pc = "write" =>
          /\ cursor.acct \in 1..Len(accounts)
          /\ cursor.field \in 1..Len(Families)
    /\ pc \in {"start", "login", "otp", "retry", "login_ret", "spawn", "poll",
               "write", "sleep", "exit"}

\* C16: the poll loop has no normal end: the process ends only on a failure
\* (transport, a prompt, a call of login, an accounts response that is not a
\* parsed 200 or a text 401), and from every other state it can go on; a 401
\* leads through one call of login back to the next request, as often as
\* 401s come, with no bound on the attempts.
C16_NoNormalEnd ==
    C16_ExitIsFailure /\ C16_CanGoOn

\* C16's case: after cycles that set gauges a request was answered 401, the
\* call of login has returned a token and the next request is about to go.
C16_Witness ==
    /\ pc = "poll" /\ lastStatus = 401 /\ gap.logins = 1 /\ gap.sleeps = 0
    /\ ~netFailed
    /\ \E fam \in FamilySet : DOMAIN gauges[fam] # {}

\* The gauges hold, per family and key, the value of the last set() on it.
C11_LastSet == gauges = lastSet

\* What a step of either thread does to the gauges and to what is read.
C11_Step ==
    /\ \A fam \in DOMAIN metrics' \ DOMAIN metrics : metrics'[fam] = lastSet[fam]
    /\ threadVars' # threadVars => (gauges' = gauges /\ lastSet' = lastSet)
    /\ \A fam \in FamilySet : \A k \in DOMAIN gauges'[fam] :
          ~SameEntry(gauges'[fam], gauges[fam], k) =>
              /\ pc = "write" /\ threadVars' = threadVars
              /\ fam = Families[cursor.field]
              /\ k = label_values(accounts[cursor.acct])
              /\ \A fam2 \in FamilySet \ {fam} : gauges'[fam2] = gauges[fam2]
              /\ \A k2 \in DOMAIN gauges[fam] \ {k} : gauges'[fam][k2] = gauges[fam][k2]

\* C11: under every interleaving of main and the metrics thread, what a
\* /metrics request reads for a family and key is the value of the last set()
\* on exactly that family and key at the moment of the read, absent if there
\* was none; a step of the metrics thread changes no gauge, and a set()
\* changes the gauge of its own family and key only.
C11_ReadsLastSet ==
    []C11_LastSet /\ [][C11_Step]_vars

\* C11's case: within one cycle a request has read a family after the cycle
\* had overwritten a gauge of it, while the cycle is still writing.
C11_Witness ==
    /\ pc = "write" /\ fresh
    /\ \E fam \in DOMAIN metrics : \E k \in DOMAIN pre[fam] :
          /\ k \in DOMAIN metrics[fam]
          /\ metrics[fam][k] # pre[fam][k]

\* The place of a family among the four sets of the loop body, and of a key
\* among the accounts of the response.
FieldOf(fam) == CHOOSE i \in 1..Len(Families) : Families[i] = fam
AccountOf(k) == CHOOSE i \in 1..Len(accounts) : label_values(accounts[i]) = k

\* The value `v` of the gauge of `k` in `fam` is the one the gauge had when
\* the accounts response arrived, or the one the cycle sets it to.
OldOrNew(v, fam, k) ==
    \/ k \in DOMAIN pre[fam] /\ v = pre[fam][k]
    \/ /\ k \in KeysOf(accounts)
       /\ LET amount == ParseF64(accounts[AccountOf(k)].amounts[FieldOf(fam)])
          IN  amount.ok /\ v = GaugeValue(amount)

\* The gauge of `k` in `fam` was set before the cycle, and the cycle sets it
\* to another value.
Changes(fam, k) ==
    /\ k \in DOMAIN pre[fam] /\ k \in KeysOf(accounts)
    /\ LET amount == ParseF64(accounts[AccountOf(k)].amounts[FieldOf(fam)])
       IN  amount.ok /\ GaugeValue(amount) # pre[fam][k]

\* C17: the gauge writes of a cycle are atomic one by one and not as a group:
\* while a cycle is under way every gauge, and every value a /metrics request
\* of that time has read, is either the value from before the cycle or the
\* value the cycle sets, never a mix of the two; but one request can read
\* the new value of one gauge and the old value of another.
C17_EachWriteAtomic ==
    pc \in {"write", "sleep"} =>
        /\ \A fam \in FamilySet : \A k \in DOMAIN gauges[fam] :
              OldOrNew(gauges[fam][k], fam, k)
        /\ fresh => \A fam \in DOMAIN metrics : \A k \in DOMAIN metrics[fam] :
              OldOrNew(metrics[fam][k], fam, k)

\* C17's case: a request that began after the accounts response of the cycle
\* under way has gathered all four families; of one account it has a new value
\* in one family and the old one in another, and of a later account it has
\* the old value.
C17_Witness ==
    /\ pc \in {"write", "sleep"} /\ fresh /\ spc = "respond"
    /\ \E k \in KeysOf(accounts) : \E f1, f2 \in FamilySet :
          /\ Changes(f1, k) /\ metrics[f1][k] # pre[f1][k]
          /\ Changes(f2, k) /\ metrics[f2][k] = pre[f2][k]
    /\ \E k1, k2 \in KeysOf(accounts) : \E f1, f2 \in FamilySet :
          /\ AccountOf(k1) < AccountOf(k2)
          /\ Changes(f1, k1) /\ metrics[f1][k1] # pre[f1][k1]
          /\ Changes(f2, k2) /\ metrics[f2][k2] = pre[f2][k2]

\* The metrics thread exists only once the first call of login has returned
\* a token; while the process runs, a thread that has bound its port can take
\* a step.
C19_Started ==
    /\ (spc # "none") = (server = "running")
    /\ spc # "none" => (token # None /\ granted # None /\ pc \notin {"start", "spawn"})
    /\ pc \in {"start", "spawn"} => spc = "none"
    /\ (entry = "initial" \/ token = None) => (spc = "none" /\ metrics = << >>)
    /\ (spc \in Serving /\ pc # "exit") =>
          ENABLED (ServerAccept \/ ServerGather \/ ServerRespond)
    /\ (spc \in Serving /\ pc = "exit") =>
          ~ENABLED (ServerAccept \/ ServerGather \/ ServerRespond)

\* The thread starts at the spawn and never goes back; once it serves it
\* goes on serving.
C19_Step ==
    /\ spc' # spc =>
          \/ spc = "none" /\ pc = "spawn" /\ token # None /\ spc' = "bind"
          \/ spc = "bind" /\ spc' \in {"accept", "dead"}
          \/ spc \in Serving /\ spc' \in Serving
    /\ metrics' # metrics => (spc \in Serving /\ pc # "exit" /\ pc' = pc)
    /\ (spc' # spc /\ spc # "none") => (pc # "exit" /\ pc' = pc)

\* C19: the metrics endpoint serves no request before the initial login has
\* succeeded: the thread is spawned only after the first call of login has
\* returned a token; when that call fails the process ends with the thread
\* never spawned; a thread that serves goes on serving until the process
\* ends.
C19_ServeAfterLogin ==
    []C19_Started /\ [][C19_Step]_vars

\* C19's case: the first call of login has returned a token and the thread
\* has gathered the gauges for a request.
C19_Witness ==
    /\ spc = "respond" /\ token # None /\ pc # "exit"
    /\ \E fam \in FamilySet : DOMAIN metrics[fam] # {}

\* C19's other case: the first call of login has failed and the process has
\* ended with the thread never spawned.
C19_FailedStart ==
    pc = "exit" /\ entry = "initial" /\ token = None /\ spc = "none"

=============================================================================
